---- MODULE Spec2Model ----
(***************************************************************************)
(* Model of arch/bit_range_ops.h (namespace ML): the double-word shift,    *)
(* extract_bit_range / set_bit_range over a two-word window, the memory    *)
(* buffer strategies, the bit cursor, Bit_Extractor and Bit_Writer.        *)
(*                                                                         *)
(* A word of W bits is the set of the positions of its 1 bits, a subset of *)
(* 0..W-1, so that the four word widths 8, 16, 32 and 64 are all exact.    *)
(* The C++ operators are translated on that representation: | is \cup,     *)
(* & is \cap, ~ is the complement in 0..W-1, >> and << move positions.     *)
(***************************************************************************)
EXTENDS Integers, FiniteSets, Sequences, TLC

VARIABLES
    W,          \* sizeof(Data) * 8 of the instantiation under test
    intel_isa,  \* the build: JML_INTEL_ISA defined (and not JML_COMPILER_NVCC)
    mem,        \* the word array, [0..n-1 -> word]
    mem0,       \* the word array as it was handed to the driver
    val,        \* the value of the last write
    bit,        \* the bit offset of the single-field operations
    bits,       \* the field width (the word count, for a buffer advance)
    pc,         \* what the driver runs and where it is
    op,         \* name of the last operation applied
    res,        \* its result
    kind,       \* the destination type of the last extraction
    rd,         \* indices of the words the last operation read
    wr,         \* indices of the words it wrote
    writer,     \* Bit_Writer<Data>: [data, bit_ofs]
    ext,        \* Bit_Extractor<Data>: [buf |-> Bit_Buffer [data, bit_ofs], bit_ofs]
    out,        \* the fields extracted, skipped or written so far:
                \* <<[bits, res], ...>>
    cbuf,       \* Bit_Buffer<Data, Buffered_Mem_Buffer<Data> >: [data, bit_ofs]
    back,       \* the values read back after the writes
    thr,        \* the two threads of the concurrent driver
    smb,        \* Simple_Mem_Buffer<Data>: [data]
    bmb,        \* Buffered_Mem_Buffer<Data>: [data, b0, b1]
    adv         \* the sum of the offsets the two buffers were advanced by

vars == <<W, intel_isa, mem, mem0, val, bit, bits, pc, op, res, kind, rd, wr,
          writer, ext, out, cbuf, back, thr, smb, bmb, adv>>

(***************************************************************************)
(* Words and the C++ integer operators                                     *)
(***************************************************************************)
Widths == {8, 16, 32, 64}

BitsOf(Wd) == 0 .. (Wd - 1)

NoWord == {}

AllOnes(Wd) == BitsOf(Wd)

\* The outcomes of a shift whose count is not less than the width of the
\* (promoted) left operand, which is undefined behaviour: the hardware masks
\* the count ("wrap": x86, AArch64), or the shift is evaluated to zero
\* ("zero": constant folding, ARM32).
ShiftUB == {"wrap", "zero"}

\* x >> n, for 0 <= n
shr(x, n) == {i - n : i \in {j \in x : j >= n}}

\* Data(x << n): the operand is promoted to int when Data is narrower than
\* int, shifted, and converted back to Data (which keeps the low Wd bits).
shl(Wd, x, n, ub) ==
    LET opw == IF Wd < 32 THEN 32 ELSE Wd
    IN  IF n < opw
            THEN {i + n : i \in x} \cap BitsOf(Wd)
            ELSE IF ub = "wrap"
                     THEN {i + (n % opw) : i \in x} \cap BitsOf(Wd)
                     ELSE {}

\* Data(x - 1), modulo 2^Wd
dec(Wd, x) ==
    IF x = {}
        THEN AllOnes(Wd)
        ELSE LET l == CHOOSE i \in x : \A j \in x : i <= j
             IN  (x \ {l}) \cup (0 .. (l - 1))

\* (Data(1) << bits) - 1
field_mask(Wd, n, ub) == dec(Wd, shl(Wd, {0}, n, ub))

\* x * Data(flag)
times_flag(x, flag) == IF flag THEN x ELSE {}

Min(a, b) == IF a < b THEN a ELSE b

RECURSIVE Pow2(_)
Pow2(n) == IF n = 0 THEN 1 ELSE 2 * Pow2(n - 1)

\* The unsigned number a word stands for (words below 2^31 only)
RECURSIVE Val(_)
Val(x) ==
    IF x = {}
        THEN 0
        ELSE LET i == CHOOSE j \in x : TRUE
             IN  Pow2(i) + Val(x \ {i})

\* The word of width Wd whose bits repeat the 16-bit number n
Pat(n, Wd) == {i \in BitsOf(Wd) : (n \div Pow2(i % 16)) % 2 = 1}

(***************************************************************************)
(* shrd_emulated, shrd                                                     *)
(***************************************************************************)
\* low >>= bits; high <<= (TBITS - bits); return low | high;
shrd_emulated(Wd, low, high, n, ub) ==
    shr(low, n) \cup shl(Wd, high, Wd - n, ub)

\* The x86 SHRD instruction on a Wd-bit register pair, count (uint8_t)bits:
\* the count is taken modulo 32 (64 for a 64-bit operand); a count of 0
\* leaves the destination alone.
shrd_asm(Wd, low, high, n) ==
    LET cnt == (n % 256) % (IF Wd = 64 THEN 64 ELSE 32)
    IN  IF n > Wd
            THEN {}
            ELSE IF cnt = 0
                     THEN low
                     ELSE shr(low, cnt) \cup
                          ({i + (Wd - cnt) : i \in high} \cap BitsOf(Wd))

\* Mutant of shrd_overload: no overloads for the 8-bit types.
shrd_overload_template(Wd) == IF intel_isa THEN "asm" ELSE "emulated"

\* The shrd a call with operands of Wd bits resolves to: in an Intel build
\* the template with the instruction, except for unsigned char and signed
\* char, whose overloads call shrd_emulated; in every other build the
\* template that calls shrd_emulated.
shrd_overload(Wd) == IF intel_isa /\ Wd # 8 THEN "asm" ELSE "emulated"

\* shrd(low, high, bits)
shrd(Wd, low, high, n, ub) ==
    IF shrd_overload(Wd) = "asm"
        THEN shrd_asm(Wd, low, high, n)
        ELSE shrd_emulated(Wd, low, high, n, ub)

(***************************************************************************)
(* extract_bit_range, set_bits, set_bit_range                              *)
(***************************************************************************)
\* Mutant of extract_bit_range_p: no zeroing for bits == 0, and the mask
\* built as ~Data(0) >> (DBITS - bits), which is all ones for bits == 0.
extract_bit_range_p_shiftmask(Wd, p0, p1, b, n, ub) ==
    LET straddle == b + n > Wd
        shifted  == IF straddle THEN shrd(Wd, p0, p1, b, ub) ELSE shr(p0, b)
        mask     == IF n = 0 THEN AllOnes(Wd) ELSE shr(AllOnes(Wd), Wd - n)
    IN  [res |-> shifted \cap mask,
         rd  |-> IF straddle THEN {0, 1} ELSE {0}]

\* Mutant of extract_bit_range_p: p[1] is read and shrd is used whether the
\* field straddles or not.
extract_bit_range_p_always_next(Wd, p0, p1, b, n, ub) ==
    LET shifted == shrd(Wd, p0, p1, b, ub)
        zeroed  == times_flag(shifted, n # 0)
    IN  [res |-> zeroed \cap field_mask(Wd, n, ub),
         rd  |-> {0, 1}]

\* Data extract_bit_range(const Data * p, size_t bit, shift_t bits):
\* the result and the indices (relative to p) of the words read.
extract_bit_range_p(Wd, p0, p1, b, n, ub) ==
    LET straddle == b + n > Wd
        shifted  == IF straddle THEN shrd(Wd, p0, p1, b, ub) ELSE shr(p0, b)
        zeroed   == times_flag(shifted, n # 0)
    IN  [res |-> zeroed \cap field_mask(Wd, n, ub),
         rd  |-> IF straddle THEN {0, 1} ELSE {0}]

\* Data extract_bit_range(Data p0, Data p1, size_t bit, shift_t bits)
extract_bit_range(Wd, p0, p1, b, n, ub) ==
    IF n = 0
        THEN {}
        ELSE times_flag(shrd(Wd, p0, p1, b, ub), n # 0)
                 \cap field_mask(Wd, n, ub)

\* Mutant of set_bits: val <<= bit left out.
set_bits_unshifted(Wd, in, v, b, n, ub) ==
    LET mask == shl(Wd, field_mask(Wd, n, ub), b, ub)
    IN  (in \cap (BitsOf(Wd) \ mask)) \cup (v \cap mask)

\* Mutant of set_bits: val is not masked.
set_bits_unmasked(Wd, in, v, b, n, ub) ==
    LET mask    == shl(Wd, field_mask(Wd, n, ub), b, ub)
        shifted == shl(Wd, v, b, ub)
    IN  (in \cap (BitsOf(Wd) \ mask)) \cup shifted

\* Mutant of set_bits: mask <<= bit left out.
set_bits_lowmask(Wd, in, v, b, n, ub) ==
    LET mask    == field_mask(Wd, n, ub)
        shifted == shl(Wd, v, b, ub)
    IN  (in \cap (BitsOf(Wd) \ mask)) \cup shifted

\* Data set_bits(Data in, Data val, shift_t bit, shift_t bits)
set_bits(Wd, in, v, b, n, ub) ==
    LET mask    == shl(Wd, field_mask(Wd, n, ub), b, ub)
        shifted == shl(Wd, v, b, ub)
    IN  (in \cap (BitsOf(Wd) \ mask)) \cup (shifted \cap mask)

\* Mutant of set_bit_range: the early return for bits == 0 left out.
set_bit_range_noreturn(Wd, a, k, v, b, n, ub) ==
    LET bits0 == Min(n, Wd - b)
        bits1 == n - bits0
        w0    == set_bits(Wd, a[k], v, b, bits0, ub)
    IN  IF bits1 # 0
            THEN [mem |-> [a EXCEPT
                             ![k] = w0,
                             ![k + 1] = set_bits(Wd, a[k + 1], shr(v, bits0),
                                                 0, bits1, ub)],
                  rd  |-> {k, k + 1},
                  wr  |-> {k, k + 1}]
            ELSE [mem |-> [a EXCEPT ![k] = w0],
                  rd  |-> {k},
                  wr  |-> {k}]

\* Mutant of set_bit_range: p[1] is updated whether bits1 is 0 or not.
set_bit_range_always_next(Wd, a, k, v, b, n, ub) ==
    IF n = 0
        THEN [mem |-> a, rd |-> {}, wr |-> {}]
        ELSE LET bits0 == Min(n, Wd - b)
                 bits1 == n - bits0
                 w0    == set_bits(Wd, a[k], v, b, bits0, ub)
             IN  [mem |-> [a EXCEPT
                             ![k] = w0,
                             ![k + 1] = set_bits(Wd, a[k + 1], shr(v, bits0),
                                                 0, bits1, ub)],
                  rd  |-> {k, k + 1},
                  wr  |-> {k, k + 1}]

\* void set_bit_range(Data * p, Data val, shift_t bit, shift_t bits) on the
\* array a at word index k: the array afterwards and the indices read and
\* written.
set_bit_range(Wd, a, k, v, b, n, ub) ==
    IF n = 0
        THEN [mem |-> a, rd |-> {}, wr |-> {}]
        ELSE LET bits0 == Min(n, Wd - b)
                 bits1 == n - bits0
                 w0    == set_bits(Wd, a[k], v, b, bits0, ub)
             IN  IF bits1 # 0
                     THEN [mem |-> [a EXCEPT
                                      ![k] = w0,
                                      ![k + 1] = set_bits(Wd, a[k + 1],
                                                          shr(v, bits0), 0,
                                                          bits1, ub)],
                           rd  |-> {k, k + 1},
                           wr  |-> {k, k + 1}]
                     ELSE [mem |-> [a EXCEPT ![k] = w0],
                           rd  |-> {k},
                           wr  |-> {k}]

\* Mutant of set_bit_range_accesses: p[1] is updated whether bits1 is 0 or
\* not.
set_bit_range_accesses_always_next(Wd, k, b, n) ==
    IF n = 0 THEN <<>>
    ELSE LET bits0 == Min(n, Wd - b)
             bits1 == n - bits0
         IN  <<[idx |-> k, sh |-> 0, b |-> b, n |-> bits0],
               [idx |-> k + 1, sh |-> bits0, b |-> 0, n |-> bits1]>>

\* The word updates of set_bit_range(p, val, bit, bits), p at word index k,
\* in program order: each is p[idx] = set_bits(p[idx], val >> sh, b, n), a
\* load of the word followed by a store to it.
set_bit_range_accesses(Wd, k, b, n) ==
    IF n = 0 THEN <<>>
    ELSE LET bits0 == Min(n, Wd - b)
             bits1 == n - bits0
         IN  <<[idx |-> k, sh |-> 0, b |-> b, n |-> bits0]>>
                \o (IF bits1 # 0
                        THEN <<[idx |-> k + 1, sh |-> bits0, b |-> 0,
                                n |-> bits1]>>
                        ELSE <<>>)

(***************************************************************************)
(* sign_extend, fixup_extract                                              *)
(***************************************************************************)
\* The conversion of a signed integer of `from` bits to one of `to` bits
widen(x, from, to) ==
    IF (from - 1) \in x THEN x \cup (from .. (to - 1)) ELSE x

\* (1 << sign_bit): the operands are int, so the shift is a 32-bit one and
\* undefined from sign_bit = 32 on.
int_one_shl(sign_bit, ub) ==
    IF sign_bit < 32 THEN {sign_bit}
    ELSE IF ub = "wrap" THEN {sign_bit % 32} ELSE {}

\* template<typename T> T sign_extend(T raw, int sign_bit):
\*     int sign = (raw & (1 << sign_bit)) != 0;
\*     T new_bits = T(-sign) << sign_bit;
\*     return raw | new_bits;
\* raw and the int mask meet in the wider of T and int.
sign_extend(Wd, raw, sign_bit, ub) ==
    LET opw      == IF Wd < 32 THEN 32 ELSE Wd
        sign     == (widen(raw, Wd, opw)
                        \cap widen(int_one_shl(sign_bit, ub), 32, opw)) # {}
        new_bits == IF sign THEN shl(Wd, AllOnes(Wd), sign_bit, ub) ELSE {}
    IN  raw \cup new_bits

\* fixup_extract(T e, shift_t bits): the generic template returns e, the
\* overloads for the signed types return sign_extend(e, bits).
fixup_extract(Wd, T, e, n, ub) ==
    IF T = "signed" THEN sign_extend(Wd, e, n, ub) ELSE e

(***************************************************************************)
(* Memory buffers, Bit_Buffer, Bit_Extractor, Bit_Writer                   *)
(***************************************************************************)
\* What a read of a[i] yields: the word, or g when i is past the array.
word_at(a, i, g) == IF i \in DOMAIN a THEN a[i] ELSE g

\* The values a read past the end of the array is modelled to yield.
Garbage(Wd) == {NoWord, AllOnes(Wd)}

\* Simple_Mem_Buffer: curr(), next(), operator +=
Simple_curr(a, s, g) == word_at(a, s.data, g)

Simple_next(a, s, g) == word_at(a, s.data + 1, g)

Simple_advance(s, offset) == [data |-> s.data + offset]

\* Buffered_Mem_Buffer: the constructor, curr(), next(), operator +=
Buffered_new(a, g) ==
    [data |-> 0, b0 |-> word_at(a, 0, g), b1 |-> word_at(a, 1, g)]

Buffered_curr(b) == b.b0

Buffered_next(b) == b.b1

\* Mutant of Buffered_advance: b0 taken from b1 for every offset but 0.
Buffered_advance_shift(a, b, offset, g) ==
    LET d == b.data + offset
    IN  [data |-> d,
         b0   |-> IF offset = 0 THEN b.b0 ELSE b.b1,
         b1   |-> IF offset = 0 THEN b.b1 ELSE word_at(a, d + 1, g)]

Buffered_advance(a, b, offset, g) ==
    LET d == b.data + offset
    IN  [data |-> d,
         b0   |-> IF offset = 0 THEN b.b0
                  ELSE IF offset = 1 THEN b.b1 ELSE word_at(a, d, g),
         b1   |-> IF offset = 0 THEN b.b1 ELSE word_at(a, d + 1, g)]

\* Mutant of Buffered_loads: both words are loaded for every offset but 0.
Buffered_loads_reload(b, offset) ==
    LET d == b.data + offset
    IN  IF offset = 0 THEN {} ELSE {d, d + 1}

\* The indices of the words operator += (offset) of a Buffered_Mem_Buffer
\* loads: data[0] for an offset above 1, data[1] for every offset but 0.
Buffered_loads(b, offset) ==
    LET d == b.data + offset
    IN  (IF offset = 0 \/ offset = 1 THEN {} ELSE {d})
            \cup (IF offset = 0 THEN {} ELSE {d + 1})

\* Buffered_Mem_Buffer::operator ++ (int): b0 = b1; b1 = data[1]; data
\* itself is not moved.
Buffered_increment(a, b, g) ==
    [data |-> b.data, b0 |-> b.b1, b1 |-> word_at(a, b.data + 1, g)]

\* The indices of the words the constructor of a Buffered_Mem_Buffer loads
Buffered_new_loads == {0, 1}

\* Mutant of Bit_Buffer_advance: bit_ofs is not reduced modulo the width.
Bit_Buffer_advance_nomod(Wd, b, n) ==
    LET ofs == b.bit_ofs + n
    IN  [data    |-> Simple_advance([data |-> b.data], ofs \div Wd).data,
         bit_ofs |-> ofs]

\* Mutant of Bit_Buffer_advance: the word pointer moves by one word at most.
Bit_Buffer_advance_oneword(Wd, b, n) ==
    LET ofs == b.bit_ofs + n
    IN  [data    |-> Simple_advance([data |-> b.data],
                                    IF ofs >= Wd THEN 1 ELSE 0).data,
         bit_ofs |-> ofs % Wd]

\* Bit_Buffer<Data, Simple_Mem_Buffer<Data> >::advance
Bit_Buffer_advance(Wd, b, n) ==
    LET ofs == b.bit_ofs + n
    IN  [data    |-> Simple_advance([data |-> b.data], ofs \div Wd).data,
         bit_ofs |-> ofs % Wd]

\* Mutant of Bit_Buffer_extract: the cursor advances before the words are
\* read.
Bit_Buffer_extract_advfirst(Wd, a, b, n, ub, g) ==
    LET c == Bit_Buffer_advance(Wd, b, n)
    IN  [res |-> extract_bit_range(Wd, Simple_curr(a, [data |-> c.data], g),
                                   Simple_next(a, [data |-> c.data], g),
                                   b.bit_ofs, n, ub),
         buf |-> c,
         rd  |-> {c.data, c.data + 1}]

\* An extract that evaluates data.next() only for a field that straddles
Bit_Buffer_extract_lazy_next(Wd, a, b, n, ub, g) ==
    [res |-> extract_bit_range(Wd, Simple_curr(a, [data |-> b.data], g),
                               Simple_next(a, [data |-> b.data], g),
                               b.bit_ofs, n, ub),
     buf |-> Bit_Buffer_advance(Wd, b, n),
     rd  |-> IF b.bit_ofs + n > Wd THEN {b.data, b.data + 1} ELSE {b.data}]

\* Bit_Buffer<Data, Simple_Mem_Buffer<Data> >::extract: the result, the
\* buffer afterwards and the indices of the words read.
Bit_Buffer_extract(Wd, a, b, n, ub, g) ==
    [res |-> extract_bit_range(Wd, Simple_curr(a, [data |-> b.data], g),
                               Simple_next(a, [data |-> b.data], g),
                               b.bit_ofs, n, ub),
     buf |-> Bit_Buffer_advance(Wd, b, n),
     rd  |-> {b.data, b.data + 1}]

\* Bit_Buffer<Data, Buffered_Mem_Buffer<Data> >: the constructor, and
\* extract with the advance that ends it; rd are the words loaded.
Buffered_Bit_Buffer_new(a, g) == [data |-> Buffered_new(a, g), bit_ofs |-> 0]

Buffered_Bit_Buffer_extract(Wd, a, c, n, ub, g) ==
    LET ofs == c.bit_ofs + n
    IN  [res |-> extract_bit_range(Wd, Buffered_curr(c.data),
                                   Buffered_next(c.data), c.bit_ofs, n, ub),
         buf |-> [data    |-> Buffered_advance(a, c.data, ofs \div Wd, g),
                  bit_ofs |-> ofs % Wd],
         rd  |-> Buffered_loads(c.data, ofs \div Wd)]

\* template<typename T> void Bit_Extractor::extract(T & where, int num_bits):
\* where = buf.extract(num_bits).  The conversion of the Data result to a T
\* of the same width keeps the bit pattern, whatever the signedness of T.
Bit_Extractor_extract(Wd, a, e, T, n, ub, g) ==
    LET r == Bit_Buffer_extract(Wd, a, e.buf, n, ub, g)
    IN  [where |-> r.res,
         ext   |-> [e EXCEPT !.buf = r.buf],
         rd    |-> r.rd]

\* The extract overloads for two, three and four fields:
\*     where1 = buf.extract(num_bits1); where2 = buf.extract(num_bits2); ...
\* ns are the widths and ubs the outcome of each call's shifts; the result
\* holds the values assigned, left to right.
RECURSIVE Bit_Extractor_extract_fields(_, _, _, _, _, _)
Bit_Extractor_extract_fields(Wd, a, e, ns, ubs, g) ==
    IF ns = <<>> THEN [where |-> <<>>, ext |-> e, rd |-> {}]
    ELSE LET r    == Bit_Buffer_extract(Wd, a, e.buf, Head(ns), Head(ubs), g)
             rest == Bit_Extractor_extract_fields(
                         Wd, a, [e EXCEPT !.buf = r.buf], Tail(ns), Tail(ubs), g)
         IN  [where |-> <<r.res>> \o rest.where,
              ext   |-> rest.ext,
              rd    |-> r.rd \cup rest.rd]

\* void Bit_Extractor::advance(int bits): buf.advance(bits)
Bit_Extractor_advance(Wd, e, n) ==
    [e EXCEPT !.buf = Bit_Buffer_advance(Wd, e.buf, n)]

\* The number a T holding the bit pattern x stands for (two's complement
\* for a signed T); only for patterns whose magnitude is below 2^31.
NumVal(Wd, T, x) ==
    IF T = "signed" /\ (Wd - 1) \in x
        THEN 0 - (Val(BitsOf(Wd) \ x) + 1)
        ELSE Val(x)

\* void Bit_Writer::write(Data val, int bits)
Bit_Writer_write(Wd, a, w, v, n, ub) ==
    LET r   == set_bit_range(Wd, a, w.data, v, w.bit_ofs, n, ub)
        ofs == w.bit_ofs + n
    IN  [mem    |-> r.mem,
         rd     |-> r.rd,
         wr     |-> r.wr,
         writer |-> [data |-> w.data + (ofs \div Wd), bit_ofs |-> ofs % Wd]]

(***************************************************************************)
(* Bounds and samples                                                      *)
(***************************************************************************)
\* Words of the array a cursor runs over, its padding word included
MemLen == 3

\* The first word of the second thread
ThreadSplit == 1

\* Fields of the widest extract overload
MaxFused == 4

\* Words of the array the memory buffers run over
BufLen == 4

\* Fields extracted, or written, in one run of a cursor
MaxFields == 2

\* Largest word count of one buffer advance
MaxAdvance == 2

Arr(s) == [i \in 0 .. (Len(s) - 1) |-> s[i + 1]]

\* Two-word buffers: all zeros, all ones, 0xABCD / 0x1234 repeated.
MemSamples(Wd) ==
    { Arr(<<NoWord, NoWord>>),
      Arr(<<AllOnes(Wd), AllOnes(Wd)>>),
      Arr(<<Pat(43981, Wd), Pat(4660, Wd)>>) }

\* Values below 2^n: zero, all ones, 0x5A5A repeated.
ValSamples(Wd, n) ==
    {x \cap (0 .. (n - 1)) : x \in {NoWord, AllOnes(Wd), Pat(23130, Wd)}}

\* Values below 2^n the writer is driven with: all ones, 0x5A5A repeated.
StreamVals(Wd, n) ==
    {x \cap (0 .. (n - 1)) : x \in {AllOnes(Wd), Pat(23130, Wd)}}

\* Arrays of len words: all zeros, all ones, and two arrays of the words
\* 0x5555, 0xABCD, 0x1234, 0xA5C3 (each repeated to the word width) in turn.
SampleWord(Wd, i) ==
    LET k == i % 4
    IN  IF k = 0 THEN Pat(21845, Wd)
        ELSE IF k = 1 THEN Pat(43981, Wd)
        ELSE IF k = 2 THEN Pat(4660, Wd) ELSE Pat(42435, Wd)

ArraySamples(Wd, len) ==
    { [i \in 0 .. (len - 1) |-> NoWord],
      [i \in 0 .. (len - 1) |-> AllOnes(Wd)],
      [i \in 0 .. (len - 1) |-> SampleWord(Wd, i)],
      [i \in 0 .. (len - 1) |-> SampleWord(Wd, i + 1)] }

\* Field widths the cursors are driven with
FieldWidths(Wd) == {0, 1, 5, Wd \div 2, Wd - 1}

\* Bits of the array before its trailing padding word
StreamBits(Wd) == (MemLen - 1) * Wd

(***************************************************************************)
(* The driver of the single-field operations: Init draws the word width,   *)
(* the build, a two-word buffer and the arguments; each action applies one *)
(* operation to them.                                                      *)
(***************************************************************************)
NoCursor == [data |-> 0, bit_ofs |-> 0]

NoBuffer == [data |-> 0, b0 |-> NoWord, b1 |-> NoWord]

\* The cursors and threads a driver does not use
IdleOthers ==
    /\ cbuf = [data |-> NoBuffer, bit_ofs |-> 0]
    /\ back = <<>>
    /\ thr = <<>>

IdleCursors ==
    /\ writer = NoCursor
    /\ ext = [buf |-> NoCursor, bit_ofs |-> 0]
    /\ out = <<>>
    /\ kind = "unsigned"
    /\ IdleOthers

IdleBuffers ==
    /\ smb = [data |-> 0]
    /\ bmb = NoBuffer
    /\ adv = 0

Init ==
    /\ W \in Widths
    /\ intel_isa \in BOOLEAN
    /\ mem \in MemSamples(W)
    /\ mem0 = mem
    /\ bit \in BitsOf(W)
    /\ bits \in BitsOf(W)
    /\ val = NoWord
    /\ pc = "start"
    /\ op = "none"
    /\ res = NoWord
    /\ rd = {}
    /\ wr = {}
    /\ IdleCursors
    /\ IdleBuffers

config == <<W, intel_isa, mem0>>

others == <<cbuf, back, thr>>

cursors == <<writer, ext, out, kind, others>>

buffers == <<smb, bmb, adv>>

\* set_bit_range(p, v, bit, bits) on the buffer, for a v below 2^bits
SetBitRange ==
    /\ pc = "start"
    /\ \E v \in ValSamples(W, bits), ub \in ShiftUB :
          LET r == set_bit_range(W, mem, 0, v, bit, bits, ub)
          IN  /\ mem' = r.mem
              /\ rd' = r.rd
              /\ wr' = r.wr
              /\ val' = v
    /\ pc' = "set"
    /\ op' = "set_bit_range"
    /\ res' = NoWord
    /\ UNCHANGED <<config, bit, bits, cursors, buffers>>

\* Whole words: all ones, 0x5A5A repeated, 0xA5A5 repeated.
WideSamples(Wd) == {AllOnes(Wd), Pat(23130, Wd), Pat(42405, Wd)}

\* set_bit_range(p, v, bit, bits) on the buffer, for a field of one bit or
\* more and a v of any size
SetBitRangeWide ==
    /\ pc = "start"
    /\ bits >= 1
    /\ \E v \in WideSamples(W), ub \in ShiftUB :
          LET r == set_bit_range(W, mem, 0, v, bit, bits, ub)
          IN  /\ mem' = r.mem
              /\ rd' = r.rd
              /\ wr' = r.wr
              /\ val' = v
    /\ pc' = "set"
    /\ op' = "set_bit_range_wide"
    /\ res' = NoWord
    /\ UNCHANGED <<config, bit, bits, cursors, buffers>>

NextWide == SetBitRangeWide

SpecWide == Init /\ [][NextWide]_vars

\* extract_bit_range(p, bit, bits) on the buffer, before or after the write
ExtractPtr ==
    /\ pc \in {"start", "set"}
    /\ \E ub \in ShiftUB :
          LET r == extract_bit_range_p(W, mem[0], mem[1], bit, bits, ub)
          IN  /\ res' = r.res
              /\ rd' = r.rd
    /\ wr' = {}
    /\ pc' = "done"
    /\ op' = IF pc = "set" THEN "set_extract_p" ELSE "extract_p"
    /\ UNCHANGED <<config, mem, val, bit, bits, cursors, buffers>>

\* extract_bit_range(p[0], p[1], bit, bits)
ExtractVal ==
    /\ pc = "start"
    /\ \E ub \in ShiftUB :
          res' = extract_bit_range(W, mem[0], mem[1], bit, bits, ub)
    /\ rd' = {}
    /\ wr' = {}
    /\ pc' = "done"
    /\ op' = "extract"
    /\ UNCHANGED <<config, mem, val, bit, bits, cursors, buffers>>

\* shrd_emulated(p[0], p[1], bit)
ShrdEmulated ==
    /\ pc = "start"
    /\ \E ub \in ShiftUB :
          res' = shrd_emulated(W, mem[0], mem[1], bit, ub)
    /\ rd' = {}
    /\ wr' = {}
    /\ pc' = "done"
    /\ op' = "shrd_emulated"
    /\ UNCHANGED <<config, mem, val, bit, bits, cursors, buffers>>

\* shrd(p[0], p[1], bit)
Shrd ==
    /\ pc = "start"
    /\ \E ub \in ShiftUB :
          res' = shrd(W, mem[0], mem[1], bit, ub)
    /\ rd' = {}
    /\ wr' = {}
    /\ pc' = "done"
    /\ op' = "shrd"
    /\ UNCHANGED <<config, mem, val, bit, bits, cursors, buffers>>

Next ==
    \/ SetBitRange
    \/ ExtractPtr
    \/ ExtractVal
    \/ ShrdEmulated
    \/ Shrd

Spec == Init /\ [][Next]_vars

\* The driver of the double-word shifts alone
InitShrd ==
    /\ W \in Widths
    /\ intel_isa \in BOOLEAN
    /\ mem \in MemSamples(W)
    /\ mem0 = mem
    /\ bit \in BitsOf(W)
    /\ bits = 0
    /\ val = NoWord
    /\ pc = "start"
    /\ op = "none"
    /\ res = NoWord
    /\ rd = {}
    /\ wr = {}
    /\ IdleCursors
    /\ IdleBuffers

NextShrd ==
    \/ ShrdEmulated
    \/ Shrd

SpecShrd == InitShrd /\ [][NextShrd]_vars

\* The same operations on a field of a whole word at bit offset 0
InitFull ==
    /\ W \in Widths
    /\ intel_isa \in BOOLEAN
    /\ mem \in MemSamples(W)
    /\ mem0 = mem
    /\ bit = 0
    /\ bits = W
    /\ val = NoWord
    /\ pc = "start"
    /\ op = "none"
    /\ res = NoWord
    /\ rd = {}
    /\ wr = {}
    /\ IdleCursors
    /\ IdleBuffers

SpecFull == InitFull /\ [][Next]_vars

(***************************************************************************)
(* The driver of the memory buffers: a Simple_Mem_Buffer and a             *)
(* Buffered_Mem_Buffer over the same array, advanced together.             *)
(***************************************************************************)
InitBuf ==
    /\ W \in Widths
    /\ intel_isa \in BOOLEAN
    /\ mem \in ArraySamples(W, BufLen)
    /\ mem0 = mem
    /\ bit = 0
    /\ bits = 0
    /\ val = NoWord
    /\ pc = "buffers"
    /\ op = "none"
    /\ res = NoWord
    /\ rd = {}
    /\ wr = {}
    /\ IdleCursors
    /\ smb = [data |-> 0]
    /\ \E g \in Garbage(W) : bmb = Buffered_new(mem, g)
    /\ adv = 0

\* operator += (k) on both buffers, while the words they show exist
BufAdvance ==
    /\ pc = "buffers"
    /\ \E k \in 0 .. MaxAdvance, g \in Garbage(W) :
          /\ adv + k + 1 < BufLen
          /\ smb' = Simple_advance(smb, k)
          /\ bmb' = Buffered_advance(mem, bmb, k, g)
          /\ rd' = Buffered_loads(bmb, k)
          /\ adv' = adv + k
          /\ bits' = k
    /\ op' = "advance"
    /\ UNCHANGED <<config, mem, val, bit, pc, res, wr, cursors>>

NextBuf == BufAdvance

\* operator ++ (int) on the Buffered_Mem_Buffer; the Simple_Mem_Buffer, which
\* has no such operator, moves on by one word with operator += (1)
BufIncrement ==
    /\ pc = "buffers"
    /\ adv + 2 < BufLen
    /\ \E g \in Garbage(W) : bmb' = Buffered_increment(mem, bmb, g)
    /\ smb' = Simple_advance(smb, 1)
    /\ rd' = {bmb.data + 1}
    /\ adv' = adv + 1
    /\ bits' = 1
    /\ op' = "increment"
    /\ UNCHANGED <<config, mem, val, bit, pc, res, wr, cursors>>

NextInc ==
    \/ BufAdvance
    \/ BufIncrement

SpecInc == InitBuf /\ [][NextInc]_vars

SpecBuf == InitBuf /\ [][NextBuf]_vars

(***************************************************************************)
(* The driver of the cursors: a Bit_Writer or a Bit_Extractor constructed  *)
(* over an array whose last word is padding.                               *)
(***************************************************************************)
InitStream ==
    /\ W \in Widths
    /\ intel_isa \in BOOLEAN
    /\ mem \in ArraySamples(W, MemLen)
    /\ mem0 = mem
    /\ bit = 0
    /\ bits = 0
    /\ val = NoWord
    /\ pc \in {"writer", "extractor"}
    /\ op = "none"
    /\ res = NoWord
    /\ rd = {}
    /\ wr = {}
    /\ IdleCursors
    /\ IdleBuffers

\* The stream position of a cursor
BitPos(Wd, c) == c.data * Wd + c.bit_ofs

\* extractor.extract(where, n) into a destination of type T
Extract ==
    /\ pc \in {"extractor", "cursor"}
    /\ Len(out) < MaxFields
    /\ \E n \in FieldWidths(W), T \in {"signed", "unsigned"},
          ub \in ShiftUB, g \in Garbage(W) :
          /\ BitPos(W, ext.buf) + n <= StreamBits(W)
          /\ LET r == Bit_Extractor_extract(W, mem, ext, T, n, ub, g)
             IN  /\ res' = r.where
                 /\ ext' = r.ext
                 /\ rd' = r.rd
                 /\ out' = Append(out, [bits |-> n, res |-> r.where])
          /\ kind' = T
          /\ bits' = n
    /\ wr' = {}
    /\ op' = "extract"
    /\ UNCHANGED <<config, mem, val, bit, pc, writer, buffers, others>>

\* writer.write(v, n), for a v below 2^n
Write ==
    /\ pc = "writer"
    /\ Len(out) < MaxFields
    /\ \E n \in FieldWidths(W), ub \in ShiftUB :
          /\ BitPos(W, writer) + n <= StreamBits(W)
          /\ \E v \in StreamVals(W, n) :
                LET r == Bit_Writer_write(W, mem, writer, v, n, ub)
                IN  /\ mem' = r.mem
                    /\ rd' = r.rd
                    /\ wr' = r.wr
                    /\ writer' = r.writer
                    /\ val' = v
                    /\ out' = Append(out, [bits |-> n, res |-> v])
          /\ bits' = n
    /\ res' = NoWord
    /\ op' = "write"
    /\ UNCHANGED <<config, bit, pc, ext, kind, buffers, others>>

\* The field widths of the fused extracts
FusedWidths(Wd) == {0, 5, Wd - 1}

\* The sum of a sequence of widths
RECURSIVE SumSeq(_)
SumSeq(ns) == IF ns = <<>> THEN 0 ELSE Head(ns) + SumSeq(Tail(ns))

\* The fields a sequence of widths and the values extracted for them make
Fields(ns, ws) == [i \in 1 .. Len(ns) |-> [bits |-> ns[i], res |-> ws[i]]]

\* extractor.extract(where1, n1, where2, n2, ...) on a fresh extractor, for
\* two, three and four fields that end before the padding word, so that no
\* word past the array is read
ExtractFused ==
    /\ pc = "extractor"
    /\ out = <<>>
    /\ \E k \in 2 .. MaxFused :
          \E ns \in [1 .. k -> FusedWidths(W)], ubs \in [1 .. k -> ShiftUB] :
             /\ SumSeq(ns) < StreamBits(W)
             /\ LET r == Bit_Extractor_extract_fields(W, mem, ext, ns, ubs,
                                                      NoWord)
                IN  /\ res' = r.where[k]
                    /\ ext' = r.ext
                    /\ rd' = r.rd
                    /\ out' = Fields(ns, r.where)
             /\ bits' = ns[k]
    /\ wr' = {}
    /\ op' = "extract_fused"
    /\ UNCHANGED <<config, mem, val, bit, pc, writer, kind, buffers, others>>

\* The construction of a Bit_Buffer over a Buffered_Mem_Buffer on the array
ConstructCached ==
    /\ pc = "extractor"
    /\ op = "none"
    /\ \E g \in Garbage(W) : cbuf' = Buffered_Bit_Buffer_new(mem, g)
    /\ rd' = Buffered_new_loads
    /\ wr' = {}
    /\ pc' = "cached"
    /\ op' = "construct"
    /\ UNCHANGED <<config, mem, val, bit, bits, res, kind, writer, ext, out,
                   back, thr, buffers>>

\* cbuf.extract(n)
ExtractCached ==
    /\ pc = "cached"
    /\ Len(out) < MaxFields
    /\ \E n \in FieldWidths(W), ub \in ShiftUB, g \in Garbage(W) :
          /\ BitPos(W, [data |-> cbuf.data.data, bit_ofs |-> cbuf.bit_ofs]) + n
                <= StreamBits(W)
          /\ LET r == Buffered_Bit_Buffer_extract(W, mem, cbuf, n, ub, g)
             IN  /\ res' = r.res
                 /\ cbuf' = r.buf
                 /\ rd' = r.rd
                 /\ out' = Append(out, [bits |-> n, res |-> r.res])
          /\ bits' = n
    /\ wr' = {}
    /\ op' = "extract_cached"
    /\ UNCHANGED <<config, mem, val, bit, pc, kind, writer, ext, back, thr,
                   buffers>>

\* After the writes, a fresh Bit_Extractor over the array extracts the next
\* field back, with the width it was written with
ReadBack ==
    /\ pc \in {"writer", "reader"}
    /\ Len(back) < Len(out)
    /\ LET n == out[Len(back) + 1].bits
       IN  /\ \E ub \in ShiftUB, g \in Garbage(W) :
                 LET r == Bit_Extractor_extract(W, mem, ext, "unsigned", n,
                                                ub, g)
                 IN  /\ res' = r.where
                     /\ ext' = r.ext
                     /\ rd' = r.rd
                     /\ back' = Append(back, r.where)
           /\ bits' = n
    /\ pc' = "reader"
    /\ wr' = {}
    /\ op' = "read_back"
    /\ UNCHANGED <<config, mem, val, bit, kind, writer, out, cbuf, thr,
                   buffers>>

\* The bit counts handed to advance, whole words and more included
AdvanceWidths(Wd) == {0, 1, Wd - 1, Wd, Wd + 1, 2 * Wd}

\* extractor.advance(n); from here on the run is one of extracts and
\* advances, and out holds the skipped bits as a field without a value
Advance ==
    /\ pc \in {"extractor", "cursor"}
    /\ Len(out) < MaxFields
    /\ \E n \in AdvanceWidths(W) :
          /\ BitPos(W, ext.buf) + n <= StreamBits(W)
          /\ ext' = Bit_Extractor_advance(W, ext, n)
          /\ out' = Append(out, [bits |-> n, res |-> NoWord])
          /\ bits' = n
    /\ pc' = "cursor"
    /\ res' = NoWord
    /\ rd' = {}
    /\ wr' = {}
    /\ op' = "advance"
    /\ UNCHANGED <<config, mem, val, bit, writer, kind, buffers, others>>

NextStream ==
    \/ Extract
    \/ ExtractFused
    \/ Advance
    \/ ConstructCached
    \/ ExtractCached
    \/ ReadBack
    \/ Write

SpecStream == InitStream /\ [][NextStream]_vars

\* The extracts alone: the two extract_bit_range variants on a two-word
\* buffer, and Bit_Extractor::extract on an array
InitExtracts == Init \/ (InitStream /\ pc = "extractor")

NextExtracts ==
    \/ ExtractPtr
    \/ ExtractVal
    \/ Extract

SpecExtracts == InitExtracts /\ [][NextExtracts]_vars

\* The three drivers together
InitAll == Init \/ InitBuf \/ InitStream

NextAll ==
    \/ Next
    \/ NextBuf
    \/ NextStream

SpecAll == InitAll /\ [][NextAll]_vars

(***************************************************************************)
(* The driver of the sign extension: Init draws the word width, a word and *)
(* a bit count; each action applies one of the two functions.              *)
(***************************************************************************)
InitSign ==
    /\ W \in Widths
    /\ intel_isa \in BOOLEAN
    /\ mem \in MemSamples(W)
    /\ mem0 = mem
    /\ bit = 0
    /\ bits \in BitsOf(W)
    /\ val = NoWord
    /\ pc = "sign"
    /\ op = "none"
    /\ res = NoWord
    /\ rd = {}
    /\ wr = {}
    /\ IdleCursors
    /\ IdleBuffers

\* fixup_extract(e, bits) for an extracted e: the low `bits` bits of the
\* word, nothing above them
FixupExtract ==
    /\ pc = "sign"
    /\ \E T \in {"signed", "unsigned"}, ub \in ShiftUB :
          LET e == mem[0] \cap (0 .. (bits - 1))
          IN  /\ val' = e
              /\ res' = fixup_extract(W, T, e, bits, ub)
              /\ kind' = T
    /\ pc' = "done"
    /\ op' = "fixup_extract"
    /\ UNCHANGED <<config, mem, bit, bits, rd, wr, writer, ext, out, others,
                   buffers>>

\* sign_extend(raw, sign_bit) for a signed raw
SignExtend ==
    /\ pc = "sign"
    /\ \E ub \in ShiftUB :
          /\ val' = mem[0]
          /\ res' = sign_extend(W, mem[0], bits, ub)
    /\ kind' = "signed"
    /\ pc' = "done"
    /\ op' = "sign_extend"
    /\ UNCHANGED <<config, mem, bit, bits, rd, wr, writer, ext, out, others,
                   buffers>>

NextSign ==
    \/ FixupExtract
    \/ SignExtend

\* Raw values: the word of the buffer, the words of one bit and the words
\* 2^(k+1) - 1
RawSamples(Wd) ==
    {mem[0]} \cup {{k} : k \in BitsOf(Wd)} \cup {0 .. k : k \in BitsOf(Wd)}

\* sign_extend(raw, bits) for a raw value of any shape
SignExtendRaw ==
    /\ pc = "sign"
    /\ \E raw \in RawSamples(W), ub \in ShiftUB :
          /\ val' = raw
          /\ res' = sign_extend(W, raw, bits, ub)
    /\ kind' = "signed"
    /\ pc' = "done"
    /\ op' = "sign_extend_raw"
    /\ UNCHANGED <<config, mem, bit, bits, rd, wr, writer, ext, out, others,
                   buffers>>

NextSignRaw == SignExtendRaw

SpecSignRaw == InitSign /\ [][NextSignRaw]_vars

SpecSign == InitSign /\ [][NextSign]_vars

(***************************************************************************)
(* The driver of two threads: each runs a cursor of its own over its own   *)
(* words of one array, thread 1 a Bit_Writer over the words below          *)
(* ThreadSplit, thread 2 a Bit_Writer or a Bit_Extractor over the words    *)
(* from ThreadSplit on.  A step is one load or one store of a word; what a *)
(* thread computes between them is local to it.                            *)
(***************************************************************************)
NewThread(k, base, lim) ==
    [kind |-> k,                 \* "writer" or "extractor"
     base |-> base,              \* the word the cursor is constructed at
     lim  |-> lim,               \* the first word past the thread's words
     cur  |-> [data |-> base, bit_ofs |-> 0],
     acc  |-> <<>>,              \* word updates of the write under way
     ld   |-> FALSE,             \* the word of the first of them is loaded
     tmp  |-> NoWord,            \* the word loaded
     need |-> {},                \* words the extract under way has to load
     w    |-> <<NoWord, NoWord>>,\* curr() and next() as loaded
     n    |-> 0,                 \* the operation under way: bits, val
     v    |-> NoWord,
     ovl  |-> FALSE,             \* accessed memory while the other thread
                                 \* was inside an operation
     hist |-> <<>>]              \* the thread's operations: [bits, res, ub]

\* The array and the values the threads are driven with
ThreadArrays(Wd) == { [i \in 0 .. (BufLen - 1) |-> SampleWord(Wd, i)] }

ThreadVals(Wd, n) == {Pat(23130, Wd) \cap (0 .. (n - 1))}

ThreadWidths(Wd) == {5, Wd - 1}

InitConc ==
    /\ W \in Widths
    /\ intel_isa \in BOOLEAN
    /\ mem \in ThreadArrays(W)
    /\ mem0 = mem
    /\ bit = 0
    /\ bits = 0
    /\ val = NoWord
    /\ pc = "threads"
    /\ op = "none"
    /\ res = NoWord
    /\ rd = {}
    /\ wr = {}
    /\ writer = NoCursor
    /\ ext = [buf |-> NoCursor, bit_ofs |-> 0]
    /\ out = <<>>
    /\ kind = "unsigned"
    /\ cbuf = [data |-> NoBuffer, bit_ofs |-> 0]
    /\ back = <<>>
    /\ \E k \in {"writer", "extractor"} :
          thr = <<NewThread("writer", 0, ThreadSplit),
                  NewThread(k, ThreadSplit, BufLen)>>
    /\ IdleBuffers

\* Thread i is inside an operation: between its loads and stores
Busy(t) == t.acc # <<>> \/ t.need # {}

Other(i) == 3 - i

\* Thread i after a memory access
Accessed(i, t) == [t EXCEPT !.ovl = @ \/ Busy(thr[Other(i)])]

unthreaded == <<config, val, bit, bits, pc, res, kind, writer, ext, out, cbuf,
                back, buffers>>

\* Thread i calls writer.write(v, n): the word updates of set_bit_range are
\* due, the cursor moves on
ThreadWrite ==
    \E i \in {1, 2} :
        LET t == thr[i]
        IN  /\ pc = "threads"
            /\ t.kind = "writer"
            /\ ~Busy(t)
            /\ Len(t.hist) < MaxFields
            /\ \E n \in ThreadWidths(W) : \E v \in ThreadVals(W, n) :
                  /\ BitPos(W, t.cur) + n <= t.lim * W
                  /\ thr' = [thr EXCEPT ![i] =
                        [t EXCEPT
                           !.acc = set_bit_range_accesses(W, t.cur.data,
                                                          t.cur.bit_ofs, n),
                           !.n = n,
                           !.v = IF n = 0 THEN NoWord ELSE v,
                           !.cur = Bit_Writer_write(W, mem, t.cur, v, n,
                                                    "wrap").writer,
                           !.hist = Append(@, [bits |-> n, res |-> v,
                                               ub |-> "wrap"])]]
            /\ op' = "thread"
            /\ UNCHANGED <<mem, rd, wr, unthreaded>>

\* Thread i loads the word of the update that is due
ThreadLoad ==
    \E i \in {1, 2} :
        LET t == thr[i]
        IN  /\ pc = "threads"
            /\ t.acc # <<>>
            /\ ~t.ld
            /\ thr' = [thr EXCEPT ![i] =
                  [Accessed(i, t) EXCEPT !.ld = TRUE,
                                         !.tmp = mem[Head(t.acc).idx]]]
            /\ op' = "thread"
            /\ UNCHANGED <<mem, rd, wr, unthreaded>>

\* Thread i stores set_bits(word loaded, val >> sh, b, n) to the word; the
\* locals are dead from there on
ThreadStore ==
    \E i \in {1, 2} :
        LET t == thr[i]
            u == Head(t.acc)
        IN  /\ pc = "threads"
            /\ t.acc # <<>>
            /\ t.ld
            /\ \E ub \in ShiftUB :
                  mem' = [mem EXCEPT ![u.idx] =
                            set_bits(W, t.tmp, shr(t.v, u.sh), u.b, u.n, ub)]
            /\ thr' = [thr EXCEPT ![i] =
                  [Accessed(i, t) EXCEPT
                     !.ld = FALSE,
                     !.tmp = NoWord,
                     !.acc = Tail(@),
                     !.n = IF Len(t.acc) = 1 THEN 0 ELSE @,
                     !.v = IF Len(t.acc) = 1 THEN NoWord ELSE @]]
            /\ op' = "thread"
            /\ UNCHANGED <<rd, wr, unthreaded>>

\* Thread i calls extractor.extract(n): data.curr() and data.next() are to
\* be loaded, both within the thread's words
ThreadExtract ==
    \E i \in {1, 2} :
        LET t == thr[i]
        IN  /\ pc = "threads"
            /\ t.kind = "extractor"
            /\ ~Busy(t)
            /\ Len(t.hist) < MaxFields
            /\ t.cur.data + 1 < t.lim
            /\ \E n \in ThreadWidths(W) :
                  thr' = [thr EXCEPT ![i] =
                            [t EXCEPT !.need = {0, 1}, !.n = n]]
            /\ op' = "thread"
            /\ UNCHANGED <<mem, rd, wr, unthreaded>>

\* Thread i loads one of the two words, in either order; with both loaded
\* extract_bit_range yields the field and the cursor advances
ThreadFetch ==
    \E i \in {1, 2} :
        LET t == thr[i]
        IN  /\ pc = "threads"
            /\ \E j \in t.need :
                  LET w    == [t.w EXCEPT ![j + 1] = mem[t.cur.data + j]]
                      left == t.need \ {j}
                  IN  IF left # {}
                        THEN thr' = [thr EXCEPT ![i] =
                               [Accessed(i, t) EXCEPT !.w = w, !.need = left]]
                        ELSE \E ub \in ShiftUB :
                               thr' = [thr EXCEPT ![i] =
                                 [Accessed(i, t) EXCEPT
                                    !.w = <<NoWord, NoWord>>,
                                    !.n = 0,
                                    !.need = left,
                                    !.cur = Bit_Buffer_advance(W, t.cur, t.n),
                                    !.hist = Append(@,
                                       [bits |-> t.n,
                                        res  |-> extract_bit_range(
                                                   W, w[1], w[2],
                                                   t.cur.bit_ofs, t.n, ub),
                                        ub   |-> ub])]]
            /\ op' = "thread"
            /\ UNCHANGED <<mem, rd, wr, unthreaded>>

NextConc ==
    \/ ThreadWrite
    \/ ThreadLoad
    \/ ThreadStore
    \/ ThreadExtract
    \/ ThreadFetch

SpecConc == InitConc /\ [][NextConc]_vars

(***************************************************************************)
(* The driver of two threads that share a word: each calls set_bit_range   *)
(* once, on the same two-word buffer, for a field of its own; the fields   *)
(* are disjoint and both have bits in word 0.  cur is where the thread's   *)
(* field starts.                                                           *)
(***************************************************************************)
InitShare ==
    /\ W \in Widths
    /\ intel_isa \in BOOLEAN
    /\ mem \in ThreadArrays(W)
    /\ mem0 = mem
    /\ bit = 0
    /\ bits = 0
    /\ val = NoWord
    /\ pc = "threads"
    /\ op = "none"
    /\ res = NoWord
    /\ rd = {}
    /\ wr = {}
    /\ writer = NoCursor
    /\ ext = [buf |-> NoCursor, bit_ofs |-> 0]
    /\ out = <<>>
    /\ kind = "unsigned"
    /\ cbuf = [data |-> NoBuffer, bit_ofs |-> 0]
    /\ back = <<>>
    /\ \E b \in {5, W - 1} :
          thr = <<NewThread("setter", 0, 2),
                  [NewThread("setter", 0, 2) EXCEPT !.cur.bit_ofs = b]>>
    /\ IdleBuffers

\* The bits [from, to) a thread's field takes, once it is chosen
FieldOf(t) ==
    [from |-> BitPos(W, t.cur),
     to   |-> BitPos(W, t.cur) + (IF t.hist = <<>> THEN 0
                                  ELSE t.hist[1].bits)]

\* Thread i calls set_bit_range(p, v, bit, n), for a field that keeps clear
\* of where the other thread's field starts
ThreadSet ==
    \E i \in {1, 2} :
        LET t == thr[i]
            o == thr[Other(i)]
        IN  /\ pc = "threads"
            /\ t.kind = "setter"
            /\ ~Busy(t)
            /\ t.hist = <<>>
            /\ \E n \in ThreadWidths(W) : \E v \in ThreadVals(W, n) :
                  /\ BitPos(W, t.cur) < BitPos(W, o.cur)
                        => BitPos(W, t.cur) + n <= BitPos(W, o.cur)
                  /\ thr' = [thr EXCEPT ![i] =
                        [t EXCEPT
                           !.acc = set_bit_range_accesses(W, t.cur.data,
                                                          t.cur.bit_ofs, n),
                           !.n = n,
                           !.v = v,
                           !.hist = Append(@, [bits |-> n, res |-> v,
                                               ub |-> "wrap"])]]
            /\ op' = "thread"
            /\ UNCHANGED <<mem, rd, wr, unthreaded>>

NextShare ==
    \/ ThreadSet
    \/ ThreadLoad
    \/ ThreadStore

SpecShare == InitShare /\ [][NextShare]_vars

(***************************************************************************)
(* The compact size codec: encode_compact and decode_compact over a store  *)
(* of bytes.  A value is the set of its 1-bits, a byte likewise; the store *)
(* is the sequence of bytes written, first byte first.                     *)
(***************************************************************************)
\* char buf[9]
CompactBufLen == 9

\* highest_bit(x): the index of the highest bit set, -1 when none is
highest_bit(x) ==
    IF x = {} THEN 0 - 1 ELSE CHOOSE i \in x : \A j \in x : j <= i

\* a / b of two ints, b > 0: the quotient is truncated towards zero
int_div(a, b) == IF a < 0 THEN 0 - ((0 - a) \div b) ELSE a \div b

\* val & 0xff after k rounds of val >>= 8
byte_of(v, k) == {i \in 0 .. 7 : (8 * k + i) \in v}

\* The int ~((1 << s) - 1); the shift is undefined for s outside 0 .. 31
int_not_low(s, ub) ==
    LET one == IF s \in 0 .. 31 THEN {s}
               ELSE IF ub = "wrap" THEN {s % 32} ELSE {}
    IN  BitsOf(32) \ dec(32, one)

\* encode_compact(store, val): the bytes saved.  buf[i] is the byte of val
\* taken in round len - 1 - i; the indicator is or-ed into buf[0].  A len
\* above CompactBufLen writes and saves the bytes past buf as well.
encode_compact(v, ub) ==
    LET idx       == int_div(highest_bit(v), 7)
        len       == idx + 1
        indicator == int_not_low(8 - idx, ub) \cap (0 .. 7)
    IN  [i \in 1 .. len |->
            IF i = 1 THEN byte_of(v, len - 1) \cup indicator
            ELSE byte_of(v, len - i)]

\* result <<= 8; result |= store[i], for the first n bytes of the store
RECURSIVE gather(_, _)
gather(st, n) ==
    IF n = 0 THEN NoWord
    ELSE ({i + 8 : i \in gather(st, n - 1)} \cap BitsOf(64)) \cup st[n]

\* decode_compact(store): whether must_have(len) let it go on, the result and
\* the number of bytes skipped.  The mask ~((1 << bits) - 1) is an int,
\* converted to unsigned long for the &=.
decode_compact(st, ub) ==
    LET marker == st[1]
        len    == 8 - highest_bit((0 .. 7) \ marker)
    IN  IF len > Len(st)
            THEN [ok |-> FALSE, result |-> NoWord, len |-> 0]
            ELSE [ok     |-> TRUE,
                  result |-> IF len = 9 THEN gather(st, len)
                             ELSE gather(st, len) \cap
                                      widen(int_not_low(len * 7, ub), 32, 64),
                  len    |-> len]

\* The values encoded: 0, the powers of two, and the numbers 2^(k+1) - 1
CompactSamples ==
    {NoWord} \cup {{k} : k \in BitsOf(64)} \cup {0 .. k : k \in BitsOf(64)}

\* The driver of the codec: a value is encoded into an empty store (back),
\* then decoded from it; rd are the bytes decode_compact skipped.
InitCompact ==
    /\ W = 64
    /\ intel_isa \in BOOLEAN
    /\ mem = Arr(<<NoWord, NoWord>>)
    /\ mem0 = mem
    /\ bit = 0
    /\ bits = 0
    /\ val \in CompactSamples
    /\ pc = "compact"
    /\ op = "none"
    /\ res = NoWord
    /\ rd = {}
    /\ wr = {}
    /\ IdleCursors
    /\ IdleBuffers

EncodeCompact ==
    /\ pc = "compact"
    /\ \E ub \in ShiftUB : back' = encode_compact(val, ub)
    /\ bits' = Len(back')
    /\ wr' = 0 .. (Len(back') - 1)
    /\ pc' = "encoded"
    /\ op' = "encode_compact"
    /\ UNCHANGED <<config, mem, val, bit, res, rd, writer, ext, out, kind,
                   cbuf, thr, buffers>>

DecodeCompact ==
    /\ pc = "encoded"
    /\ \E ub \in ShiftUB :
          LET r == decode_compact(back, ub)
          IN  /\ res' = r.result
              /\ rd' = 0 .. (r.len - 1)
              /\ pc' = IF r.ok THEN "decoded" ELSE "thrown"
    /\ op' = "decode_compact"
    /\ UNCHANGED <<config, mem, val, bit, bits, wr, cursors, buffers>>

NextCompact ==
    \/ EncodeCompact
    \/ DecodeCompact

SpecCompact == InitCompact /\ [][NextCompact]_vars

(***************************************************************************)
(* Properties of the single-field operations                               *)
(***************************************************************************)
\* Bit q of the bit stream the array a holds, least significant bit first
StreamBit(Wd, a, q) == (q % Wd) \in a[q \div Wd]

\* The n-bit field of the stream starting at bit q, right-justified
Field(Wd, a, q, n) == {i \in 0 .. (n - 1) : StreamBit(Wd, a, q + i)}

Straddles == bit + bits > W

\* C1: set_bit_range(p, val, bit, bits) followed by
\* extract_bit_range(p, bit, bits) returns val, for every width, offset,
\* field width below W and val below 2^bits, straddling or not.
C1_RoundTrip == op = "set_extract_p" => res = val

C1_Witness ==
    /\ op = "set_extract_p"
    /\ Straddles
    /\ val # NoWord
    /\ val # mem0[0]
    /\ res = val

\* C2: set_bit_range changes no bit of p[0] or p[1] outside the stream
\* positions bit .. bit + bits - 1.
C2_Frame ==
    op = "set_bit_range" =>
        \A q \in 0 .. (2 * W - 1) :
            (q < bit \/ q >= bit + bits) =>
                (StreamBit(W, mem, q) <=> StreamBit(W, mem0, q))

C2_Witness ==
    /\ op = "set_bit_range"
    /\ Straddles
    /\ mem[0] # mem0[0]
    /\ mem[1] # mem0[1]

\* C3: extract_bit_range(word0, word1, bit, bits) is the field of the 2W-bit
\* value word1:word0 at bit, right-justified, with the bits from position
\* bits up zero; for the 16-bit words 0xABCD and 0x1234 the 6-bit field at
\* offset 13 is 37.
C3_ExtractIsField ==
    op = "extract" =>
        /\ res = Field(W, mem, bit, bits)
        /\ (W = 16 /\ mem[0] = Pat(43981, 16) /\ mem[1] = Pat(4660, 16)
                /\ bit = 13 /\ bits = 6) => Val(res) = 37

\* C4: both variants of extract_bit_range return 0 when bits = 0.
C4_ZeroWidthExtract ==
    (op \in {"extract", "extract_p", "set_extract_p"} /\ bits = 0) =>
        res = NoWord

C4_Witness ==
    /\ op \in {"extract", "extract_p"}
    /\ bits = 0
    /\ bit > 0
    /\ shr(mem[0], bit) # NoWord
    /\ res = NoWord

\* The W-bit window of the 2W-bit value high:low that starts n bits up,
\* ((high * 2^W + low) div 2^n) mod 2^W, bit by bit.
Window(Wd, low, high, n) ==
    {i \in BitsOf(Wd) :
        IF i + n < Wd THEN (i + n) \in low ELSE (i + n - Wd) \in high}

\* C6: shrd_emulated(low, high, bits) is
\* ((high * 2^W + low) div 2^bits) mod 2^W for every bits below W, and is
\* exactly low when bits = 0.
C6_ShrdEmulatedIsWindow ==
    op = "shrd_emulated" =>
        /\ res = Window(W, mem[0], mem[1], bit)
        /\ bit = 0 => res = mem[0]
        /\ W = 8 => Val(res) =
                      ((Val(mem[1]) * 256 + Val(mem[0])) \div Pow2(bit)) % 256

\* C7: where both exist, the accelerated shrd(low, high, bits) returns what
\* shrd_emulated(low, high, bits) returns.
C7_ShrdEquivalence ==
    (op = "shrd" /\ intel_isa) =>
        \A ub \in ShiftUB : res = shrd_emulated(W, mem[0], mem[1], bit, ub)

\* C5: set_bit_range(p, val, bit, 0) reads and writes no word and leaves
\* the buffer as it was; Bit_Writer::write(val, 0) touches no word either
\* and leaves the writer's word pointer and bit_ofs unchanged.
C5_ZeroWidthWrite ==
    [][ (op' \in {"set_bit_range", "write"} /\ bits' = 0) =>
            /\ rd' = {}
            /\ wr' = {}
            /\ mem' = mem
            /\ writer' = writer ]_vars

C5_Witness ==
    /\ op = "write"
    /\ bits = 0
    /\ Len(out) = 2
    /\ writer.bit_ofs > 0
    /\ mem # mem0

(***************************************************************************)
(* Properties of the buffers and the cursors                               *)
(***************************************************************************)
RECURSIVE SumBits(_, _)
\* The bits of the first n fields of the history h
SumBits(h, n) == IF n = 0 THEN 0 ELSE SumBits(h, n - 1) + h[n].bits

C9_BufferEquivalence ==
    pc = "buffers" =>
        \A g \in Garbage(W) :
            /\ Simple_curr(mem, smb, g) = mem[adv]
            /\ Simple_next(mem, smb, g) = mem[adv + 1]
            /\ Buffered_curr(bmb) = mem[adv]
            /\ Buffered_next(bmb) = mem[adv + 1]

C9_Witness ==
    /\ pc = "buffers"
    /\ op = "advance"
    /\ bits = 2
    /\ adv = 2
    /\ mem[adv] # mem[adv - 1]
    /\ mem[adv] # mem[adv - 2]
    /\ Buffered_curr(bmb) = mem[adv]

\* C10: a 5-bit field holding 0b10101, extracted with
\* Bit_Extractor::extract, is -11 in a signed destination and 21 in an
\* unsigned one.
C10_SignExtension ==
    (op = "extract" /\ bits = 5
        /\ Field(W, mem, BitPos(W, ext.buf) - 5, 5) = {0, 2, 4}) =>
            NumVal(W, kind, res) = IF kind = "signed" THEN 0 - 11 ELSE 21

(***************************************************************************)
(* Properties of the sign extension                                        *)
(***************************************************************************)
\* C11: for a signed destination, an extracted value with nothing at or
\* above position bits and a width bits in [1,W), the fixup returns the
\* value with the positions bits..W-1 set when its bit bits-1 is set, and
\* the value unchanged otherwise.
C11_FixupExtract ==
    (op = "fixup_extract" /\ kind = "signed" /\ bits >= 1)
        => res = IF (bits - 1) \in val
                    THEN val \cup (bits .. (W - 1))
                    ELSE val

(***************************************************************************)
(* Properties of the cursors, continued                                    *)
(***************************************************************************)
\* What k consecutive single-field extract calls of widths ns, starting
\* with extractor e, return, and the extractor they leave
RECURSIVE SingleExtracts(_, _, _, _, _, _)
SingleExtracts(Wd, a, e, ns, ubs, g) ==
    IF ns = <<>> THEN [where |-> <<>>, ext |-> e]
    ELSE LET r    == Bit_Extractor_extract(Wd, a, e, "unsigned", Head(ns),
                                           Head(ubs), g)
             rest == SingleExtracts(Wd, a, r.ext, Tail(ns), Tail(ubs), g)
         IN  [where |-> <<r.where>> \o rest.where, ext |-> rest.ext]

\* The widths of the fields of a history
WidthsOf(h) == [i \in 1 .. Len(h) |-> h[i].bits]

\* The values of the fields of a history
ValuesOf(h) == [i \in 1 .. Len(h) |-> h[i].res]

FreshExtractor == [buf |-> NoCursor, bit_ofs |-> 0]

C13_BitOfsInRange ==
    pc \in {"writer", "extractor", "cursor", "cached", "reader"} =>
        /\ ext.buf.bit_ofs \in BitsOf(W)
        /\ writer.bit_ofs \in BitsOf(W)
        /\ cbuf.bit_ofs \in BitsOf(W)

C13_Witness ==
    /\ op = "advance"
    /\ bits > W
    /\ Len(out) = 2
    /\ out[1].bits = W - 1
    /\ ext.buf.bit_ofs = 0
    /\ ext.buf.data = 2

\* C14: after the operations of widths b1..bn on a cursor,
\* W * word index + bit_ofs = b1 + ... + bn; no operation moves the word
\* index or the position backwards.
C14_CursorAccounting ==
    [][ /\ pc' \in {"extractor", "cursor"} =>
              /\ BitPos(W, ext'.buf) = SumBits(out', Len(out'))
              /\ ext'.buf.data >= ext.buf.data
              /\ BitPos(W, ext'.buf) >= BitPos(W, ext.buf)
        /\ pc' = "writer" =>
              /\ BitPos(W, writer') = SumBits(out', Len(out'))
              /\ writer'.data >= writer.data
              /\ BitPos(W, writer') >= BitPos(W, writer) ]_vars

C14_Witness ==
    /\ op = "extract"
    /\ pc = "cursor"
    /\ Len(out) = 2
    /\ out[1].bits = W + 1
    /\ bits = W - 1
    /\ ext.buf = [data |-> 2, bit_ofs |-> 0]

\* The words that hold T bits
CeilDiv(T, Wd) == (T + Wd - 1) \div Wd

\* The bits handed to the cursor so far
Total == SumBits(out, Len(out))

\* Every field of the run so far has a width of one bit at least
AllNonEmpty == \A j \in 1 .. Len(out) : out[j].bits >= 1

\* C15: a Bit_Extractor over a Simple_Mem_Buffer that extracts fields of
\* widths in [1,W) making T bits in all reads no word at index
\* ceil(T/W) + 1 or beyond, streams that end on a word boundary included.
C15_DirectPadding ==
    (pc = "extractor" /\ op \in {"extract", "extract_fused"} /\ AllNonEmpty)
        => \A i \in rd : i < CeilDiv(Total, W) + 1

C15_Witness ==
    /\ pc = "extractor"
    /\ op = "extract"
    /\ AllNonEmpty
    /\ Len(out) = 2
    /\ Total = W
    /\ ext.buf = [data |-> 1, bit_ofs |-> 0]
    /\ rd = {0, 1}

\* C16: a cursor over a Buffered_Mem_Buffer that extracts fields of widths
\* in [1,W) making T >= 1 bits in all loads no word at index ceil(T/W) + 1
\* or beyond: not when it is constructed, and not in the advance that ends
\* an extract, the last one of a stream of a whole number of words
\* included.
C16_CachedPadding ==
    /\ op = "construct" => \A i \in rd : i < 2
    /\ (op = "extract_cached" /\ AllNonEmpty)
            => \A i \in rd : i < CeilDiv(Total, W) + 1

\* C17: a Bit_Writer that writes fields of widths in [0,W) making T bits in
\* all reads and writes words at an index below ceil(T/W) only, and the
\* set_bit_range of a write touches p[1], the word after the cursor's, only
\* when bit offset + bits > W.
C17_WriterBounds ==
    op = "write" =>
        LET q == Total - bits
            k == q \div W
            r == q % W
        IN  /\ \A i \in rd \cup wr : i < CeilDiv(Total, W)
            /\ (k + 1) \in (rd \cup wr) => r + bits > W

C17_Witness ==
    /\ op = "write"
    /\ Len(out) = 2
    /\ out[1].bits = W - 1
    /\ bits = 5
    /\ rd = {0, 1}
    /\ wr = {0, 1}
    /\ writer = [data |-> 1, bit_ofs |-> 4]
    /\ mem[1] # mem0[1]

\* C18: the fields v1..vN, v_i below 2^b_i and b_i in [0,W), written
\* through a fresh Bit_Writer come back as v1..vN when a fresh
\* Bit_Extractor over the same array extracts the widths b1..bN, whatever
\* the array held before; so no write alters a field written before it.
C18_StreamRoundTrip ==
    pc = "reader" => \A i \in 1 .. Len(back) : back[i] = out[i].res

(***************************************************************************)
(* Properties of the single-field operations, continued                    *)
(***************************************************************************)
\* C20: for a field of bits = W at bit offset 0, both extract_bit_range
\* variants return the first word unchanged, set_bit_range(p, val, 0, W)
\* replaces p[0] by val and neither reads nor writes p[1], and the mask
\* (1 << W) - 1 is all W ones.
C20_FullWidthField ==
    (bit = 0 /\ bits = W) =>
        /\ op \in {"extract", "extract_p"} => res = mem[0]
        /\ op = "set_bit_range" =>
              /\ mem[0] = val
              /\ mem[1] = mem0[1]
              /\ 1 \notin (rd \cup wr)
        /\ op \in {"extract", "extract_p", "set_bit_range"} =>
              \A ub \in ShiftUB : field_mask(W, W, ub) = AllOnes(W)

(***************************************************************************)
(* Properties of the threads                                               *)
(***************************************************************************)
\* The array after the writes h of a Bit_Writer constructed at word base,
\* one call after the other
RECURSIVE RunWrites(_, _, _, _, _)
RunWrites(Wd, a, w, h, ub) ==
    IF h = <<>> THEN a
    ELSE LET r == Bit_Writer_write(Wd, a, w, Head(h).res, Head(h).bits, ub)
         IN  RunWrites(Wd, r.mem, r.writer, Tail(h), ub)

\* The values the extracts h of a Bit_Extractor return, one call after the
\* other, each undefined shift taken as the thread's call took it
RECURSIVE RunExtracts(_, _, _, _)
RunExtracts(Wd, a, e, h) ==
    IF h = <<>> THEN <<>>
    ELSE LET r == Bit_Extractor_extract(Wd, a, e, "unsigned", Head(h).bits,
                                        Head(h).ub, NoWord)
         IN  <<r.where>> \o RunExtracts(Wd, a, r.ext, Tail(h))

\* The array after, and the values returned by, the operations of thread t
\* run alone on the array a
AloneMem(a, t, ub) ==
    IF t.kind = "writer"
        THEN RunWrites(W, a, [data |-> t.base, bit_ofs |-> 0], t.hist, ub)
        ELSE a

AloneVals(a, t) ==
    IF t.kind = "writer"
        THEN ValuesOf(t.hist)
        ELSE RunExtracts(W, a, [buf |-> [data |-> t.base, bit_ofs |-> 0],
                                bit_ofs |-> 0], t.hist)

Quiescent == \A i \in {1, 2} : ~Busy(thr[i])

\* C19: two cursors in two threads over disjoint words of one array: after
\* every interleaving of their loads and stores the array and the values
\* extracted are those of the two cursors run one after the other, in
\* either order.
C19_DisjointThreads ==
    (pc = "threads" /\ Quiescent) =>
        \A ub \in ShiftUB :
            LET a1  == AloneMem(mem0, thr[1], ub)
                a12 == AloneMem(a1, thr[2], ub)
                a2  == AloneMem(mem0, thr[2], ub)
                a21 == AloneMem(a2, thr[1], ub)
            IN  /\ mem = a12
                /\ mem = a21
                /\ ValuesOf(thr[1].hist) = AloneVals(mem0, thr[1])
                /\ ValuesOf(thr[1].hist) = AloneVals(a2, thr[1])
                /\ ValuesOf(thr[2].hist) = AloneVals(mem0, thr[2])
                /\ ValuesOf(thr[2].hist) = AloneVals(a1, thr[2])

C19_Witness ==
    /\ pc = "threads"
    /\ Quiescent
    /\ thr[1].ovl
    /\ thr[2].ovl
    /\ Len(thr[1].hist) >= 1
    /\ Len(thr[2].hist) = 2
    /\ thr[2].kind = "writer"
    /\ thr[2].cur.data > thr[2].base
    /\ mem[0] # mem0[0]
    /\ mem[ThreadSplit] # mem0[ThreadSplit]
    /\ mem[ThreadSplit + 1] # mem0[ThreadSplit + 1]

(***************************************************************************)
(* Properties of shrd, continued                                           *)
(***************************************************************************)
\* C21 as stated: for words of 8 and of 16 bits shrd(low, high, bits) is
\* computed by shrd_emulated, in the build with JML_INTEL_ISA and in the
\* build without.
C21_NarrowFallback ==
    (op = "shrd" /\ W \in {8, 16}) => shrd_overload(W) = "emulated"

\* C21 amended: for words of 8 bits shrd is computed by shrd_emulated in
\* both builds; for words of 16 bits it is computed by shrd_emulated in the
\* build without JML_INTEL_ISA and by the instruction in the build with
\* it; either way the value is the one shrd_emulated returns.
C21_NarrowFallbackAmended ==
    (op = "shrd" /\ W \in {8, 16}) =>
        /\ W = 8 => shrd_overload(W) = "emulated"
        /\ W = 16 => shrd_overload(W) = IF intel_isa THEN "asm"
                                                     ELSE "emulated"
        /\ \A ub \in ShiftUB :
              res = shrd_emulated(W, mem[0], mem[1], bit, ub)

C21_Witness ==
    /\ op = "shrd"
    /\ W = 16
    /\ intel_isa
    /\ bit = 5
    /\ res # mem[0]
    /\ res # shr(mem[0], bit)

(***************************************************************************)
(* Properties of the buffers, continued                                    *)
(***************************************************************************)
\* C22: on a Buffered_Mem_Buffer operator += (0) loads nothing and changes
\* nothing; operator += (1) moves the cached next word into curr and loads
\* one word, the new next; operator += (k), k > 1, loads curr and next; so
\* each advance by one word costs one load.
C22_CachedLoads ==
    [][ op' = "advance" =>
            /\ bits' = 0 => (rd' = {} /\ bmb' = bmb)
            /\ bits' = 1 => /\ Buffered_curr(bmb') = Buffered_next(bmb)
                            /\ rd' = {adv' + 1}
                            /\ Cardinality(rd') = 1
                            /\ Buffered_next(bmb') = mem[adv' + 1]
            /\ bits' > 1 => /\ rd' = {adv', adv' + 1}
                            /\ Buffered_curr(bmb') = mem[adv']
                            /\ Buffered_next(bmb') = mem[adv' + 1] ]_vars

C22_Witness ==
    /\ pc = "buffers"
    /\ op = "advance"
    /\ bits = 1
    /\ adv = 2
    /\ rd = {3}
    /\ Buffered_next(bmb) = mem[3]
    /\ mem[3] # mem[2]

(***************************************************************************)
(* Properties of the extracts, continued                                   *)
(***************************************************************************)
\* C23: extract_bit_range(p, bit, bits) reads p[1] if and only if
\* bit + bits > W, so it needs no padding word for a field that does not
\* straddle; Bit_Buffer::extract reads the word at the cursor's index and
\* the next one whatever the field.
C23_ConditionalNextRead ==
    /\ op = "extract_p" =>
          /\ 0 \in rd
          /\ 1 \in rd <=> bit + bits > W
    /\ (op = "extract" /\ pc \in {"extractor", "cursor"}) =>
          LET k == (Total - bits) \div W
          IN  rd = {k, k + 1}

C23_Witness ==
    /\ op = "extract_p"
    /\ bit + bits = W
    /\ bits > 0
    /\ rd = {0}
    /\ res # NoWord

\* C24: for every p0, p1, bit in [0,W) and bits in [0,W),
\* extract_bit_range(p, bit, bits) on the buffer [p0, p1] returns what
\* extract_bit_range(p0, p1, bit, bits) returns.
C24_VariantsAgree ==
    op = "extract_p" =>
        \A ub \in ShiftUB :
            res = extract_bit_range(W, mem[0], mem[1], bit, bits, ub)

\* C25: operator ++ (int) of a Buffered_Mem_Buffer advances it by one word
\* as operator += (1) does: afterwards, and after every further
\* operator ++ and operator +=, curr() is the word at the index advanced
\* to and next() the word after it.
C25_PostIncrement ==
    pc = "buffers" =>
        /\ Buffered_curr(bmb) = mem[adv]
        /\ Buffered_next(bmb) = mem[adv + 1]

\* What the field of thread t holds in the array a
HeldBy(a, t) == Field(W, a, FieldOf(t).from, FieldOf(t).to - FieldOf(t).from)

Written(t) == t.hist # <<>> /\ ~Busy(t)

Lost(t) == Written(t) /\ HeldBy(mem, t) # t.hist[1].res

\* C26: set_bit_range is a read-modify-write of whole words that is not
\* atomic.  When two threads call it for disjoint fields that share a word,
\* a field may end up without the value written to it: its bits in the
\* shared word are then those from before the call (its bits in the next
\* word are those written), the accesses of the two calls overlapped, and
\* the other field holds the value written to it.  C26_Witness is such an
\* outcome.
C26_LostUpdate ==
    (pc = "threads" /\ Quiescent) =>
        \A i \in {1, 2} :
            Lost(thr[i]) =>
                /\ \A q \in FieldOf(thr[i]).from .. (FieldOf(thr[i]).to - 1) :
                      StreamBit(W, mem, q) <=>
                          IF q < W THEN StreamBit(W, mem0, q)
                          ELSE (q - FieldOf(thr[i]).from) \in thr[i].hist[1].res
                /\ thr[1].ovl \/ thr[2].ovl
                /\ Written(thr[Other(i)])
                /\ ~Lost(thr[Other(i)])

C26_Witness ==
    /\ pc = "threads"
    /\ Quiescent
    /\ thr[1].kind = "setter"
    /\ Written(thr[1])
    /\ Written(thr[2])
    /\ Lost(thr[1])
    /\ HeldBy(mem, thr[2]) = thr[2].hist[1].res

\* C27: a zero-width extract through the Direct cursor returns 0 and leaves
\* the word index and bit_ofs as they were, but reads the words at the index
\* and at the index + 1; after a stream that ended exactly on a word
\* boundary the second of them is the word past the single padding word.
C27_ZeroWidthExtract ==
    [][(op' = "extract" /\ bits' = 0) =>
          /\ res' = NoWord
          /\ ext'.buf = ext.buf
          /\ rd' = {ext.buf.data, ext.buf.data + 1}
          /\ (Total > 0 /\ BitPos(W, ext.buf) = Total /\ Total % W = 0) =>
                \E i \in rd' : i > CeilDiv(Total, W)]_vars

C27_Witness ==
    /\ op = "extract"
    /\ bits = 0
    /\ res = NoWord
    /\ Total = StreamBits(W)
    /\ BitPos(W, ext.buf) = Total
    /\ rd = {MemLen - 1, MemLen}

\* C28: set_bit_range masks its value: for bit in [0, W), bits in [1, W) and
\* a val with bits at positions bits and above, the field holds val mod
\* 2^bits afterwards and no bit outside the field has changed, straddling
\* or not.
C28_ValueMasked ==
    op = "set_bit_range_wide" =>
        /\ Field(W, mem, bit, bits) = val \cap (0 .. (bits - 1))
        /\ \A q \in 0 .. (2 * W - 1) :
              (q < bit \/ q >= bit + bits) =>
                  (StreamBit(W, mem, q) <=> StreamBit(W, mem0, q))

C28_Witness ==
    /\ op = "set_bit_range_wide"
    /\ Straddles
    /\ val \ (0 .. (bits - 1)) # {}
    /\ mem0[0] = NoWord
    /\ mem # mem0
    /\ Field(W, mem, bit, bits) = val \cap (0 .. (bits - 1))

\* The number of bytes the format gives a value: 1 below 2^7, 2 below 2^14,
\* ..., 8 below 2^56, 9 from there on
CompactLen(v) == Min(int_div(highest_bit(v), 7) + 1, CompactBufLen)

\* C29: decode_compact, applied to the bytes encode_compact(v) wrote, returns
\* v and consumes exactly the bytes written, highest_bit(v) / 7 + 1 of them
\* (1 for v < 2^7, ..., 9 for v >= 2^56), for every unsigned 64-bit v.
C29_CompactRoundTrip ==
    /\ op = "encode_compact" =>
          /\ Len(back) = int_div(highest_bit(val), 7) + 1
          /\ Len(back) = CompactLen(val)
    /\ op = "decode_compact" =>
          /\ pc = "decoded"
          /\ res = val
          /\ rd = 0 .. (Len(back) - 1)

\* C30: sign_extend(raw, sign_bit) returns raw with every bit from sign_bit
\* up set when bit sign_bit of raw is set, and raw unchanged otherwise, for
\* the widths 8, 16, 32 and 64 and every sign_bit in [0, W), the 64-bit
\* type with sign_bit >= 31 included.
C30_SignExtend ==
    op = "sign_extend_raw" =>
        res = IF bits \in val THEN val \cup (bits .. (W - 1)) ELSE val

====
